---- MODULE Spec2Model ----
(***************************************************************************)
(* State-machine model of the PDF compression pipeline of FileFlowConvert: *)
(*   server/features/pdf_compress/service.py  (compress_pdf and helpers)   *)
(*   server/routes/pdf_compress.py            (handle_pdf_compress)        *)
(*   server/pdf_compress_service.py           (main)                       *)
(*                                                                         *)
(* A file's bytes are abstracted to a record                               *)
(*   [src, size, magic, info, meta]                                        *)
(* src   : which writer produced the bytes (input/qpdf/gs/strip),          *)
(* size  : the byte length,                                                *)
(* magic : the bytes start with the PDF header,                            *)
(* info  : the document-info dictionary is non-empty,                      *)
(* meta  : the document root references a metadata stream.                 *)
(* Two byte strings are identical iff their records are equal.             *)
(*                                                                         *)
(* Numbers that may be fractional (imageQuality) are kept in tenths.       *)
(***************************************************************************)
EXTENDS Integers, Sequences, FiniteSets, TLC

\* ------------------------------------------------------------------ bounds
\* largest byte size of any file of the model
MaxSize == 2

\* ------------------------------------------------------------- file model
NoFile == [src |-> "none", size |-> 0, magic |-> FALSE, info |-> FALSE, meta |-> FALSE]

\* the byte strings a caller may pass: well-formed documents of 1..MaxSize
\* bytes with or without metadata, and non-documents (the empty string
\* included)
InputDocs ==
    { [src |-> "input", size |-> s, magic |-> TRUE, info |-> i, meta |-> m] :
        s \in 1..MaxSize, i \in BOOLEAN, m \in BOOLEAN }
    \cup
    { [src |-> "input", size |-> s, magic |-> FALSE, info |-> FALSE, meta |-> FALSE] :
        s \in 0..MaxSize }

\* len(b)
Len_(b) == b.size

\* ---------------------------------------------------------- level catalog
GS_LEVELS_INIT ==
    [ low     |-> [ColorImageResolution |-> 300, GrayImageResolution |-> 300,
                   MonoImageResolution |-> 600, JPEGQuality |-> 85, UseJPX |-> FALSE],
      medium  |-> [ColorImageResolution |-> 200, GrayImageResolution |-> 200,
                   MonoImageResolution |-> 600, JPEGQuality |-> 70, UseJPX |-> FALSE],
      high    |-> [ColorImageResolution |-> 150, GrayImageResolution |-> 150,
                   MonoImageResolution |-> 600, JPEGQuality |-> 60, UseJPX |-> TRUE],
      maximum |-> [ColorImageResolution |-> 72, GrayImageResolution |-> 72,
                   MonoImageResolution |-> 300, JPEGQuality |-> 30, UseJPX |-> TRUE] ]

LevelNames == {"low", "medium", "high", "maximum"}

\* ------------------------------------------------------- request options
\* options["level"]: "<absent>" is a missing key, "<null>" is None
\* "<number>" is a level that is a non-zero number, not a string
LevelInputs == {"<absent>", "<null>", "", "low", "medium", "high", "maximum",
                "LOW", "Maximum", "MeDiuM", "High", "bogus", "<number>"}

\* str.lower() on the strings of LevelInputs
Lower(s) ==
    CASE s = "LOW" -> "low"
      [] s = "Maximum" -> "maximum"
      [] s = "MeDiuM" -> "medium"
      [] s = "High" -> "high"
      [] OTHER -> s

\* options["imageQuality"]: kind is the Python type of the value
\* ("absent": no such key), tenths is ten times the number
NoQuality == [kind |-> "absent", tenths |-> 0]
IntQ(q) == [kind |-> "int", tenths |-> 10 * q]
FloatQ(t) == [kind |-> "float", tenths |-> t]
StrQ == [kind |-> "str", tenths |-> 0]

QualityInputs ==
    {NoQuality, StrQ}
    \cup { IntQ(q) : q \in {-5, 0, 9, 10, 11, 30, 50, 51, 70, 71, 94, 95, 96, 200} }
    \cup { FloatQ(t) : t \in {-55, 95, 307, 505, 694, 695, 699, 949, 957} }

\* int(x): truncation toward zero
PyInt(t) == IF t >= 0 THEN t \div 10 ELSE -((-t) \div 10)

Max2(a, b) == IF a >= b THEN a ELSE b
Min2(a, b) == IF a <= b THEN a ELSE b

\* a clamp into [1, 100] instead of [10, 95]
ClampQualityWide(q) == Max2(1, Min2(100, PyInt(q.tenths)))

\* quality = max(10, min(95, int(options["imageQuality"])))
ClampQuality(q) == Max2(10, Min2(95, PyInt(q.tenths)))

\* "imageQuality" in options and isinstance(options["imageQuality"], (int, float))
HasQualityOverride(q) == q.kind \in {"int", "float"}

\* (options.get("level") or "medium").lower() raises AttributeError when
\* the value is truthy and has no method lower
LevelRaises(l) == l = "<number>"

\* a lookup that forgets .lower()
ResolveLevelCaseSensitive(l) == IF l \in {"<absent>", "<null>", ""} THEN "medium" ELSE l

\* level = (options.get("level") or "medium").lower()
ResolveLevel(l) == IF l \in {"<absent>", "<null>", ""} THEN "medium" ELSE Lower(l)

\* cfg = dict(GS_LEVELS.get(level, GS_LEVELS["medium"]))
LevelProfile(catalog, level) ==
    IF level \in DOMAIN catalog THEN catalog[level] ELSE catalog["medium"]

\* the key of the catalog entry GS_LEVELS.get(level, GS_LEVELS["medium"]) returns
ProfileKey(catalog, level) == IF level \in DOMAIN catalog THEN level ELSE "medium"

\* no copy: cfg is the catalog's own dict
DictAlias(d) == [shared |-> TRUE, items |-> d]

\* dict(d): a new dict with the items of d, not shared with the catalog
DictCopy(d) == [shared |-> FALSE, items |-> d]

\* the catalog after cfg["JPEGQuality"] = quality: the assignment reaches the
\* catalog only when cfg is the catalog's own dict
CatalogAfterResolve(catalog, opts) ==
    LET key == ProfileKey(catalog, ResolveLevel(opts.level))
        obj == DictCopy(catalog[key])
    IN  IF obj.shared /\ HasQualityOverride(opts.imageQuality)
        THEN [catalog EXCEPT ![key] =
                 [obj.items EXCEPT !.JPEGQuality = ClampQuality(opts.imageQuality)]]
        ELSE catalog

\* a profile that ignores the override
ResolveProfileNoOverride(catalog, opts) ==
    LevelProfile(catalog, ResolveLevel(opts.level))

\* cfg after the optional quality override
ResolveProfile(catalog, opts) ==
    LET base == LevelProfile(catalog, ResolveLevel(opts.level))
    IN  IF HasQualityOverride(opts.imageQuality)
        THEN [base EXCEPT !.JPEGQuality = ClampQuality(opts.imageQuality)]
        ELSE base

\* --------------------------------------------------------- lossy command
\* one token of the argument vector: the flag text and, for the two
\* resolution flags, the number that follows the '='
Arg(f) == [flag |-> f, num |-> 0]
ArgN(f, n) == [flag |-> f, num |-> n]

\* buckets whose first threshold is exclusive
GsPresetStrict(jpeg_quality) ==
    IF jpeg_quality < 50 THEN "/screen"
    ELSE IF jpeg_quality <= 70 THEN "/ebook"
    ELSE "/prepress"

\* the -dPDFSETTINGS preset chosen from the JPEG quality
GsPreset(jpeg_quality) ==
    IF jpeg_quality <= 50 THEN "/screen"
    ELSE IF jpeg_quality <= 70 THEN "/ebook"
    ELSE "/prepress"

PresetArg(p) ==
    CASE p = "/screen" -> Arg("-dPDFSETTINGS=/screen")
      [] p = "/ebook" -> Arg("-dPDFSETTINGS=/ebook")
      [] OTHER -> Arg("-dPDFSETTINGS=/prepress")

\* image flags for every preset
AddsImageFlagsAnyPreset(jpeg_quality, optimize) == optimize

\* if optimize_images and jpeg_quality <= 50
AddsImageFlags(jpeg_quality, optimize) == optimize /\ jpeg_quality <= 50

ImageFlags(level_cfg) ==
    << Arg("-dDownsampleColorImages=true"),
       Arg("-dDownsampleGrayImages=true"),
       ArgN("-dColorImageResolution", Max2(72, level_cfg.ColorImageResolution)),
       ArgN("-dGrayImageResolution", Max2(72, level_cfg.GrayImageResolution)),
       Arg("-dColorImageDownsampleType=/Average"),
       Arg("-dGrayImageDownsampleType=/Average") >>

\* a lossy pass that reads the original input instead of the lossless output
GsCommandOnInput(level_cfg, optimize) ==
    << Arg("gs"), Arg("-sDEVICE=pdfwrite"), Arg("-dCompatibilityLevel=1.4"),
       PresetArg(GsPreset(level_cfg.JPEGQuality)),
       Arg("-dNOPAUSE"), Arg("-dBATCH"), Arg("-dSAFER") >>
    \o (IF AddsImageFlags(level_cfg.JPEGQuality, optimize)
        THEN ImageFlags(level_cfg) ELSE << >>)
    \o << Arg("-sOutputFile=gs.pdf"), Arg("input.pdf") >>

\* the argument vector _gs_lossy passes to _run
GsCommand(level_cfg, optimize) ==
    << Arg("gs"), Arg("-sDEVICE=pdfwrite"), Arg("-dCompatibilityLevel=1.4"),
       PresetArg(GsPreset(level_cfg.JPEGQuality)),
       Arg("-dNOPAUSE"), Arg("-dBATCH"), Arg("-dSAFER") >>
    \o (IF AddsImageFlags(level_cfg.JPEGQuality, optimize)
        THEN ImageFlags(level_cfg) ELSE << >>)
    \o << Arg("-sOutputFile=gs.pdf"), Arg("qpdf.pdf") >>

\* ------------------------------------------------------- external engines
\* what qpdf can leave at out_pdf when it exits with code 0: it accepts
\* only a well-formed document and keeps its metadata
QpdfOutputs(in) ==
    IF in.magic
    THEN { [src |-> "qpdf", size |-> s, magic |-> TRUE, info |-> in.info, meta |-> in.meta] :
             s \in 1..MaxSize }
    ELSE {}

\* what Ghostscript can leave at out_pdf when it exits with code 0:
\* a document, a zero-byte file, or no file at all (NoFile)
GsOutputs(in) ==
    { [src |-> "gs", size |-> s, magic |-> TRUE, info |-> i, meta |-> m] :
        s \in 1..MaxSize, i \in BOOLEAN, m \in BOOLEAN }
    \cup { [src |-> "gs", size |-> 0, magic |-> FALSE, info |-> FALSE, meta |-> FALSE] }
    \cup { NoFile }

\* an edit that clears the document info and keeps the metadata stream
StripEditKeepsStream(doc) == [doc EXCEPT !.info = FALSE]

\* the edits _strip_metadata makes to the opened document:
\* pdf.docinfo.clear() and del pdf.root["/Metadata"]
StripEdit(doc) == [doc EXCEPT !.info = FALSE, !.meta = FALSE]

\* what pdf.save writes when pikepdf opens the document; pikepdf opens
\* only a well-formed document
StripOutputs(in) ==
    IF in.magic
    THEN { [StripEdit(in) EXCEPT !.src = "strip", !.size = s] : s \in 1..MaxSize }
    ELSE {}

\* a copy that never writes the output file
Copy2Nothing(in) == NoFile

\* shutil.copy2(in_pdf, out_pdf): the copy of an existing file inside the
\* request's own directory; out_pdf gets the bytes of in_pdf
Copy2(in) == in

\* --------------------------------------------------------- option parsing
FlagInputs == {"<absent>", "true", "false"}

\* bool(options.get(key, default))
BoolOption(v, default) == IF v = "<absent>" THEN default ELSE v = "true"

NoOptions ==
    [level |-> "<absent>", imageQuality |-> NoQuality,
     removeMetadata |-> "<absent>", optimizeEmbeddedImages |-> "<absent>"]

\* ------------------------------------------------------- dependency probe
ProbeOutcomes == {"ok", "nonzero", "notfound"}

\* a probe that does not look at Ghostscript
test_dependencies_qpdf_only(qp, gp, pike) ==
    IF qp = "notfound" THEN [ready |-> FALSE, raised |-> FALSE, msg |-> "Dependency test failed"]
    ELSE IF qp = "nonzero" THEN [ready |-> FALSE, raised |-> FALSE, msg |-> "qpdf not available"]
    ELSE IF ~pike THEN [ready |-> FALSE, raised |-> FALSE, msg |-> "Dependency test failed"]
    ELSE [ready |-> TRUE, raised |-> FALSE, msg |-> "All dependencies available"]

\* test_dependencies(): qp and gp are the outcomes of running
\* "qpdf --version" and "gs --version" ("notfound": _run raises because the
\* binary is missing), pike says whether "import pikepdf" succeeds; every
\* exception is caught and turned into (False, message), so raised is FALSE
test_dependencies(qp, gp, pike) ==
    IF qp = "notfound" THEN [ready |-> FALSE, raised |-> FALSE, msg |-> "Dependency test failed"]
    ELSE IF qp = "nonzero" THEN [ready |-> FALSE, raised |-> FALSE, msg |-> "qpdf not available"]
    ELSE IF gp = "notfound" THEN [ready |-> FALSE, raised |-> FALSE, msg |-> "Dependency test failed"]
    ELSE IF gp = "nonzero" THEN [ready |-> FALSE, raised |-> FALSE, msg |-> "ghostscript not available"]
    ELSE IF ~pike THEN [ready |-> FALSE, raised |-> FALSE, msg |-> "Dependency test failed"]
    ELSE [ready |-> TRUE, raised |-> FALSE, msg |-> "All dependencies available"]

\* a caller that goes on whatever the probe says
DepsGateOpen(d) == TRUE

\* if not deps_ok: the request is refused
DepsGate(d) == d.ready

\* ------------------------------------------------------------------ state
VARIABLES
    GS_LEVELS,        \* the module-level level catalog
    entry,            \* who called compress_pdf: "direct", "route", "main"
    pc,               \* position of the request
    in_bytes,         \* compress_pdf argument
    options,          \* compress_pdf argument
    cfg,              \* the request's profile
    optimize_images,
    remove_metadata,
    td,               \* the temporary directory: "none", "exists", "removed"
    files,            \* the files of the temporary directory
    qpdf_size,
    gs_size,
    gs_cmd,           \* argument vector of the lossy pass
    gs_status,        \* "none", "failed", "ok" (exit code of the lossy pass)
    chosen_pdf,       \* "none", "qpdf", "gs"
    final_file,       \* "none", "qpdf", "gs", "final"
    strip_status,     \* "none" (never invoked), "ok", "failed"
    ret,              \* what compress_pdf returns or raises
    stdout,           \* what the process printed on standard output
    result,           \* the dict reported by handle_pdf_compress or main
    exit_code,        \* exit status of main (-1: still running)
    deps,             \* the probe of the request: its inputs and its answer
    calls,            \* concurrent calls of compress_pdf: the locals of each
    fs,               \* concurrent calls: the directories under the temp root
    strip_call,       \* a call of _strip_metadata on its own: arguments and outcome
    merge             \* a call of merge_videos: main thread, tracker thread, ffmpeg

vars == << GS_LEVELS, entry, pc, in_bytes, options, cfg, optimize_images,
           remove_metadata, td, files, qpdf_size, gs_size, gs_cmd, gs_status,
           chosen_pdf, final_file, strip_status, ret, stdout, result, exit_code,
           deps, calls, fs, strip_call, merge >>

concVars == << calls, fs >>

unitVars == << strip_call, merge >>

EmptyDir == [input |-> NoFile, qpdf |-> NoFile, gs |-> NoFile, final |-> NoFile]

NoCfg == [ColorImageResolution |-> 0, GrayImageResolution |-> 0,
          MonoImageResolution |-> 0, JPEGQuality |-> 0, UseJPX |-> FALSE]

NoRet == [kind |-> "none", via |-> "none", bytes |-> NoFile]

NoResult == [reported |-> FALSE, success |-> FALSE, original_size |-> 0,
             compressed_size |-> 0, data |-> NoFile, b64 |-> FALSE, error |-> "",
             detail |-> ""]

ErrorResult(msg) == [NoResult EXCEPT !.reported = TRUE, !.error = msg]

\* {"error": f"Dependencies not available: {deps_msg}", "success": False}
DepsError(msg) == [ErrorResult("Dependencies not available") EXCEPT !.detail = msg]

NoDeps == [probed |-> FALSE, qp |-> "ok", gp |-> "ok", pike |-> TRUE,
           ready |-> FALSE, raised |-> FALSE, msg |-> ""]

\* the probe's inputs together with its answer
Probed(qp, gp, pike) ==
    LET a == test_dependencies(qp, gp, pike)
    IN  [probed |-> TRUE, qp |-> qp, gp |-> gp, pike |-> pike,
         ready |-> a.ready, raised |-> a.raised, msg |-> a.msg]

\* --------------------------------------------------- concurrent calls: data
\* the calls that may run at the same time
CallIds == {1, 2}

\* the names tempfile can give to a directory under the temp root
DirNames == {"tmpA", "tmpB"}

\* a name with no directory behind it
NoDir == [exists |-> FALSE, files |-> EmptyDir]

NoFs == [d \in DirNames |-> NoDir]

\* the locals of a call that has not started
\* (qout, gout, sout: what the call's own lossless pass, lossy pass and
\* stripper wrote; qpdf_rc, gs_rc, strip_rc: how they ended)
IdleCall == [pc |-> "idle", in_bytes |-> NoFile, options |-> NoOptions,
             remove_metadata |-> FALSE,
             cfg |-> NoCfg, td |-> "none", qpdf_size |-> -1, gs_size |-> -1,
             chosen_pdf |-> "none", final_file |-> "none", ret |-> NoRet,
             qout |-> NoFile, gout |-> NoFile, sout |-> NoFile,
             qpdf_rc |-> "none", gs_rc |-> "none", strip_rc |-> "none"]

NoCalls == [c \in CallIds |-> IdleCall]

\* ------------------------------------------------------- unit calls: data
\* _strip_metadata(in_pdf, out_pdf) before it is called: in_pdf is the file
\* at the input path (NoFile: no such file), writable says whether a file
\* can be written at out_pdf, out_pdf is the file at the output path
NoStripCall == [pc |-> "idle", in_pdf |-> NoFile, writable |-> TRUE,
                out_pdf |-> NoFile, raised |-> FALSE, warned |-> FALSE]

\* merge_videos before it is called: main and tracker are the positions of
\* the two threads, process is the ffmpeg child, percent is
\* progress_data["percent"], progress_file is the content of
\* '<output>.progress' (-1: not written)
NoMerge == [main |-> "idle", tracker |-> "none", process |-> "none",
            returncode |-> -1, percent |-> 0, last_percent |-> 0, pending |-> 0,
            progress_file |-> -1, timed_out |-> FALSE]

Init ==
    /\ GS_LEVELS = GS_LEVELS_INIT
    /\ entry = "none"
    /\ pc = "idle"
    /\ in_bytes = NoFile
    /\ options = NoOptions
    /\ cfg = NoCfg
    /\ optimize_images = FALSE
    /\ remove_metadata = FALSE
    /\ td = "none"
    /\ files = EmptyDir
    /\ qpdf_size = -1
    /\ gs_size = -1
    /\ gs_cmd = << >>
    /\ gs_status = "none"
    /\ chosen_pdf = "none"
    /\ final_file = "none"
    /\ strip_status = "none"
    /\ ret = NoRet
    /\ stdout = << >>
    /\ result = NoResult
    /\ exit_code = -1
    /\ deps = NoDeps
    /\ calls = NoCalls
    /\ fs = NoFs
    /\ strip_call = NoStripCall
    /\ merge = NoMerge

pipelineVars == << cfg, optimize_images, remove_metadata, td, files, qpdf_size,
                   gs_size, gs_cmd, gs_status, chosen_pdf, final_file,
                   strip_status, ret >>

\* ---------------------------------------------------------- entry points
\* a direct call compress_pdf(in_bytes, options), as the test suite makes
DirectCall(Docs, Opts) ==
    /\ pc = "idle"
    /\ \E d \in Docs, o \in Opts :
         /\ in_bytes' = d
         /\ options' = o
    /\ entry' = "direct"
    /\ pc' = "resolve"
    /\ UNCHANGED << GS_LEVELS, pipelineVars, stdout, result, exit_code >>
    /\ UNCHANGED << deps, concVars, unitVars >>

\* handle_pdf_compress(file_data, options_str) up to the call of
\* compress_pdf: jsonOk says whether options_str parses, qp and gp are the
\* outcomes of the two version probes
HandleBegin(Docs, Opts) ==
    /\ pc = "idle"
    /\ entry' = "route"
    /\ \E d \in Docs, jsonOk \in BOOLEAN, o \in Opts, qp \in ProbeOutcomes,
          gp \in ProbeOutcomes, pike \in BOOLEAN :
         IF ~jsonOk
         THEN /\ result' = ErrorResult("Invalid options JSON")
              /\ pc' = "done"
              /\ UNCHANGED << in_bytes, options, deps >>
         ELSE IF Len_(d) = 0
         THEN /\ result' = ErrorResult("No file data provided")
              /\ pc' = "done"
              /\ UNCHANGED << in_bytes, options, deps >>
         ELSE /\ deps' = Probed(qp, gp, pike)
              /\ IF ~DepsGate(deps')
                 THEN /\ result' = DepsError(deps'.msg)
                      /\ pc' = "done"
                      /\ UNCHANGED << in_bytes, options >>
                 ELSE /\ in_bytes' = d
                      /\ options' = o
                      /\ pc' = "resolve"
                      /\ UNCHANGED result
    /\ UNCHANGED << GS_LEVELS, pipelineVars, stdout, exit_code >>
    /\ UNCHANGED << concVars, unitVars >>

\* a process that always ends with status 0
ExitStatusAlwaysZero(printed) == 0

\* the exit status of main: sys.exit(1) follows every print of a failure
\* result, the success result is printed at the end of main and the
\* interpreter exits with 0
ExitStatus(printed) == IF printed.success THEN 0 ELSE 1

\* main() of pdf_compress_service.py up to the call of compress_pdf: argc is
\* len(sys.argv), fileExists is Path(file_path).exists()
MainBegin(Docs, Opts) ==
    /\ pc = "idle"
    /\ entry' = "main"
    /\ \E argc \in {2, 3}, d \in Docs, jsonOk \in BOOLEAN, o \in Opts,
          fileExists \in BOOLEAN, qp \in ProbeOutcomes, gp \in ProbeOutcomes,
          pike \in BOOLEAN :
         LET Fail(r) == /\ result' = r
                        /\ stdout' = Append(stdout, "json")
                        /\ exit_code' = ExitStatus(r)
                        /\ pc' = "done"
                        /\ UNCHANGED << in_bytes, options >>
         IN
         IF argc # 3 THEN Fail(ErrorResult("Usage")) /\ UNCHANGED deps
         ELSE /\ deps' = Probed(qp, gp, pike)
              /\ IF ~DepsGate(deps') THEN Fail(DepsError(deps'.msg))
                 ELSE IF ~jsonOk THEN Fail(ErrorResult("json.loads raised"))
                 ELSE IF ~fileExists THEN Fail(ErrorResult("File not found"))
                 ELSE /\ in_bytes' = d
                      /\ options' = o
                      /\ pc' = "resolve"
                      /\ UNCHANGED << result, stdout, exit_code >>
    /\ UNCHANGED << GS_LEVELS, pipelineVars >>
    /\ UNCHANGED << concVars, unitVars >>

\* a caller that reports success only for a smaller payload
ReportedSuccessIfSmaller(returned, original) == Len_(returned) < Len_(original)

\* the success flag handle_pdf_compress and main put in the result dict
\* once compress_pdf has returned a byte string
ReportedSuccess(returned, original) == TRUE

\* handle_pdf_compress after compress_pdf has returned or raised
HandleReturn ==
    /\ pc = "returned"
    /\ entry = "route"
    /\ IF ret.kind = "raised"
       THEN result' = ErrorResult("Compression failed")
       ELSE result' = [reported |-> TRUE,
                       success |-> ReportedSuccess(ret.bytes, in_bytes),
                       original_size |-> Len_(in_bytes),
                       compressed_size |-> Len_(ret.bytes),
                       data |-> ret.bytes, b64 |-> FALSE, error |-> "", detail |-> ""]
    /\ pc' = "done"
    /\ UNCHANGED << GS_LEVELS, entry, in_bytes, options, pipelineVars, stdout, exit_code >>
    /\ UNCHANGED << deps, concVars, unitVars >>

\* main after compress_pdf has returned or raised; the ratio divides by
\* len(pdf_data) without a guard
MainReturn ==
    /\ pc = "returned"
    /\ entry = "main"
    /\ IF ret.kind = "raised"
       THEN /\ result' = ErrorResult("exception")
       ELSE IF Len_(in_bytes) = 0
       THEN /\ result' = ErrorResult("division by zero")
       ELSE /\ result' = [reported |-> TRUE,
                          success |-> ReportedSuccess(ret.bytes, in_bytes),
                          original_size |-> Len_(in_bytes),
                          compressed_size |-> Len_(ret.bytes),
                          data |-> ret.bytes, b64 |-> TRUE, error |-> "", detail |-> ""]
    /\ exit_code' = ExitStatus(result')
    /\ stdout' = Append(stdout, "json")
    /\ pc' = "done"
    /\ UNCHANGED << GS_LEVELS, entry, in_bytes, options, pipelineVars >>
    /\ UNCHANGED << deps, concVars, unitVars >>

\* the direct caller receives the bytes or the exception
DirectReturn ==
    /\ pc = "returned"
    /\ entry = "direct"
    /\ pc' = "done"
    /\ UNCHANGED << GS_LEVELS, entry, in_bytes, options, pipelineVars, stdout, result, exit_code >>
    /\ UNCHANGED << deps, concVars, unitVars >>

\* ------------------------------------------------------------ compress_pdf
\* a handler that returns the lossless output when there is one
ExceptReturnLossless(original, dir) ==
    IF dir.qpdf # NoFile THEN dir.qpdf ELSE original

\* except Exception: return in_bytes
ExceptReturn(original, dir) == original

\* a comparison that gives ties to the lossy output
ChooseLossyOnTie(gs_sz, qpdf_sz) == gs_sz <= qpdf_sz

\* if gs_size < qpdf_size: the lossy output is chosen
ChooseLossy(gs_sz, qpdf_sz) == gs_sz < qpdf_sz

\* a stripper that runs whatever the flag says
RunsStripperAlways(flag) == TRUE

\* if remove_metadata: the stripper runs
RunsStripper(flag) == flag

\* an exception raised inside the try block: the handler's return value is
\* computed while the temporary directory still exists
Fallback ==
    /\ ret' = [kind |-> "bytes", via |-> "except", bytes |-> ExceptReturn(in_bytes, files')]
    /\ pc' = "return"

\* a directory made without the context manager: nothing is removed
CleanupLeaks(t, dir) == [td |-> t, files |-> dir]

\* TemporaryDirectory.__exit__: the directory and all its files are removed
Cleanup(t, dir) == [td |-> "removed", files |-> EmptyDir]

\* option parsing and profile resolution; an exception here is raised
\* before the with block and the try block and reaches the caller
Resolve ==
    /\ pc = "resolve"
    /\ IF LevelRaises(options.level)
       THEN /\ ret' = [kind |-> "raised", via |-> "raise", bytes |-> NoFile]
            /\ pc' = "returned"
            /\ UNCHANGED << GS_LEVELS, cfg, optimize_images, remove_metadata >>
       ELSE /\ cfg' = ResolveProfile(GS_LEVELS, options)
            /\ GS_LEVELS' = CatalogAfterResolve(GS_LEVELS, options)
            /\ optimize_images' = BoolOption(options.optimizeEmbeddedImages, TRUE)
            /\ remove_metadata' = BoolOption(options.removeMetadata, FALSE)
            /\ pc' = "write"
            /\ UNCHANGED ret
    /\ UNCHANGED << entry, in_bytes, options, td, files, qpdf_size, gs_size,
                    gs_cmd, gs_status, chosen_pdf, final_file, strip_status,
                    stdout, result, exit_code >>
    /\ UNCHANGED << deps, concVars, unitVars >>

\* the temporary directory is created and the input written; a failing
\* write raises outside the try block and the directory is removed
WriteInput ==
    /\ pc = "write"
    /\ \/ /\ td' = "exists"
          /\ files' = [EmptyDir EXCEPT !.input = in_bytes]
          /\ pc' = "qpdf"
          /\ UNCHANGED ret
       \/ /\ td' = Cleanup("exists", EmptyDir).td
          /\ files' = Cleanup("exists", EmptyDir).files
          /\ ret' = [kind |-> "raised", via |-> "raise", bytes |-> NoFile]
          /\ pc' = "returned"
    /\ UNCHANGED << GS_LEVELS, entry, in_bytes, options, cfg, optimize_images,
                    remove_metadata, qpdf_size, gs_size, gs_cmd, gs_status,
                    chosen_pdf, final_file, strip_status, stdout, result, exit_code >>
    /\ UNCHANGED << deps, concVars, unitVars >>

\* step 1: the lossless pass and the measurement of its output
QpdfPass ==
    /\ pc = "qpdf"
    /\ \/ \* qpdf exits with a non-zero code or cannot be started
          /\ files' = files
          /\ UNCHANGED qpdf_size
          /\ Fallback
       \/ \E out \in QpdfOutputs(files.input) :
            /\ files' = [files EXCEPT !.qpdf = out]
            /\ qpdf_size' = Len_(out)
            /\ IF Len_(in_bytes) = 0
               THEN Fallback          \* the size report divides by original_size
               ELSE pc' = "gs" /\ UNCHANGED ret
    /\ UNCHANGED << GS_LEVELS, entry, in_bytes, options, cfg, optimize_images,
                    remove_metadata, td, gs_size, gs_cmd, gs_status, chosen_pdf,
                    final_file, strip_status, stdout, result, exit_code >>
    /\ UNCHANGED << deps, concVars, unitVars >>

\* step 2: the lossy pass on the lossless output and the measurement of
\* its output
GsPass ==
    /\ pc = "gs"
    /\ gs_cmd' = GsCommand(cfg, optimize_images)
    /\ \/ \* gs exits with a non-zero code or cannot be started
          /\ gs_status' = "failed"
          /\ files' = files
          /\ UNCHANGED gs_size
          /\ Fallback
       \/ \E out \in GsOutputs(files.qpdf) :
            /\ gs_status' = "ok"
            /\ files' = [files EXCEPT !.gs = out]
            /\ IF out = NoFile
               THEN UNCHANGED gs_size /\ Fallback      \* gs_out.stat() raises
               ELSE /\ gs_size' = Len_(out)
                    /\ pc' = "select"
                    /\ UNCHANGED ret
    /\ UNCHANGED << GS_LEVELS, entry, in_bytes, options, cfg, optimize_images,
                    remove_metadata, td, qpdf_size, chosen_pdf, final_file,
                    strip_status, stdout, result, exit_code >>
    /\ UNCHANGED << deps, concVars, unitVars >>

\* _run(cmd) is subprocess.run without a timeout: when the child (qpdf or
\* gs) never exits, the call never returns and the request stays where it is
EngineHangs ==
    /\ pc \in {"qpdf", "gs"}
    /\ pc' = "blocked"
    /\ UNCHANGED << GS_LEVELS, entry, in_bytes, options, pipelineVars, stdout,
                    result, exit_code, deps, concVars, unitVars >>

\* step 3: choose the smaller result
Select ==
    /\ pc = "select"
    /\ chosen_pdf' = IF ChooseLossy(gs_size, qpdf_size) THEN "gs" ELSE "qpdf"
    /\ pc' = "strip"
    /\ UNCHANGED << GS_LEVELS, entry, in_bytes, options, cfg, optimize_images,
                    remove_metadata, td, files, qpdf_size, gs_size, gs_cmd, gs_status,
                    final_file, strip_status, ret, stdout, result, exit_code >>
    /\ UNCHANGED << deps, concVars, unitVars >>

\* step 4 with remove_metadata: _strip_metadata(chosen_pdf, final_pdf); when
\* pikepdf raises, the chosen file is copied and a warning is printed
StripMetadata ==
    /\ pc = "strip"
    /\ RunsStripper(remove_metadata)
    /\ \/ \E out \in StripOutputs(files[chosen_pdf]) :
            /\ files' = [files EXCEPT !.final = out]
            /\ strip_status' = "ok"
            /\ UNCHANGED stdout
       \/ /\ files' = [files EXCEPT !.final = Copy2(files[chosen_pdf])]
          /\ strip_status' = "failed"
          /\ stdout' = Append(stdout, "warning")
    /\ IF files'.final = NoFile
       THEN UNCHANGED final_file /\ Fallback           \* final_pdf.stat() raises
       ELSE /\ final_file' = "final"
            /\ pc' = "read"
            /\ UNCHANGED ret
    /\ UNCHANGED << GS_LEVELS, entry, in_bytes, options, cfg, optimize_images,
                    remove_metadata, td, qpdf_size, gs_size, gs_cmd, gs_status,
                    chosen_pdf, result, exit_code >>
    /\ UNCHANGED << deps, concVars, unitVars >>

\* step 4 without remove_metadata: final_file = chosen_pdf
SkipStrip ==
    /\ pc = "strip"
    /\ ~RunsStripper(remove_metadata)
    /\ final_file' = chosen_pdf
    /\ pc' = "read"
    /\ UNCHANGED << GS_LEVELS, entry, in_bytes, options, cfg, optimize_images,
                    remove_metadata, td, files, qpdf_size, gs_size, gs_cmd, gs_status,
                    chosen_pdf, strip_status, ret, stdout, result, exit_code >>
    /\ UNCHANGED << deps, concVars, unitVars >>

\* result_bytes = final_file.read_bytes(); return result_bytes
ReadFinal ==
    /\ pc = "read"
    /\ files' = files
    /\ IF Len_(in_bytes) = 0
       THEN Fallback                  \* final_reduction divides by original_size
       ELSE /\ ret' = [kind |-> "bytes", via |-> "normal", bytes |-> files[final_file]]
            /\ pc' = "return"
    /\ UNCHANGED << GS_LEVELS, entry, in_bytes, options, cfg, optimize_images,
                    remove_metadata, td, qpdf_size, gs_size, gs_cmd, gs_status,
                    chosen_pdf, final_file, strip_status, stdout, result, exit_code >>
    /\ UNCHANGED << deps, concVars, unitVars >>

\* leaving the with block: TemporaryDirectory removes the directory
ExitWith ==
    /\ pc = "return"
    /\ td' = Cleanup(td, files).td
    /\ files' = Cleanup(td, files).files
    /\ pc' = "returned"
    /\ UNCHANGED << GS_LEVELS, entry, in_bytes, options, cfg, optimize_images,
                    remove_metadata, qpdf_size, gs_size, gs_cmd, gs_status,
                    chosen_pdf, final_file, strip_status, ret, stdout, result, exit_code >>
    /\ UNCHANGED << deps, concVars, unitVars >>

\* the request is over; the next one starts from a fresh call
Reset ==
    /\ pc = "done"
    /\ entry' = "none"
    /\ pc' = "idle"
    /\ in_bytes' = NoFile
    /\ options' = NoOptions
    /\ cfg' = NoCfg
    /\ optimize_images' = FALSE
    /\ remove_metadata' = FALSE
    /\ td' = "none"
    /\ files' = EmptyDir
    /\ qpdf_size' = -1
    /\ gs_size' = -1
    /\ gs_cmd' = << >>
    /\ gs_status' = "none"
    /\ chosen_pdf' = "none"
    /\ final_file' = "none"
    /\ strip_status' = "none"
    /\ ret' = NoRet
    /\ stdout' = << >>
    /\ result' = NoResult
    /\ exit_code' = -1
    /\ deps' = NoDeps
    /\ UNCHANGED GS_LEVELS
    /\ UNCHANGED << concVars, unitVars >>

\* --------------------------------------------------------- specifications
\* options of the pipeline specification: every flag value, two levels and
\* two quality settings
PipelineOptions ==
    [level : {"<absent>", "maximum"}, imageQuality : {NoQuality, IntQ(30)},
     removeMetadata : FlagInputs, optimizeEmbeddedImages : {"<absent>", "false"}]

Steps ==
    \/ Resolve
    \/ WriteInput
    \/ QpdfPass
    \/ GsPass
    \/ EngineHangs
    \/ Select
    \/ StripMetadata
    \/ SkipStrip
    \/ ReadFinal
    \/ ExitWith

Next ==
    \/ DirectCall(InputDocs, PipelineOptions)
    \/ HandleBegin(InputDocs, PipelineOptions)
    \/ MainBegin(InputDocs, PipelineOptions)
    \/ Steps
    \/ HandleReturn
    \/ MainReturn
    \/ DirectReturn
    \/ Reset

Spec == Init /\ [][Next]_vars

\* the interpreter keeps running a request that can take a step
SpecLive == Spec /\ WF_vars(Next)

\* options of the profile specification: every level and quality input
ProfileOptions ==
    [level : LevelInputs, imageQuality : QualityInputs,
     removeMetadata : {"<absent>", "true"}, optimizeEmbeddedImages : FlagInputs]

ProfileDocs == { d \in InputDocs : d.magic /\ d.size = 1 /\ d.info /\ d.meta }

NextProfile ==
    \/ DirectCall(ProfileDocs, ProfileOptions)
    \/ Steps
    \/ DirectReturn
    \/ Reset

SpecProfile == Init /\ [][NextProfile]_vars

\* ------------------------------------------------ concurrent calls: steps
\* The same steps of compress_pdf, taken by several calls at once (threads
\* or processes of the server) on one file system; every access to a file
\* goes through the path temp_dir / name of the call that makes it.

\* inputs and options of the concurrent calls
ConcDocs ==
    { d \in InputDocs : d.size = 1 /\ d.magic /\ d.info = d.meta }

ConcOptions ==
    [level : {"low"}, imageQuality : {IntQ(30)},
     removeMetadata : {"true", "false"}, optimizeEmbeddedImages : {"<absent>"}]

\* the lossy outputs considered for concurrent calls: those that keep the
\* metadata of their input, the zero-byte file and the missing file
ConcGsOutputs(in) ==
    { o \in GsOutputs(in) : o.size = 0 \/ (o.info = in.info /\ o.meta = in.meta) }

\* a fixed working directory: every name may be handed out again
FreshDirsReused(f) == DirNames

\* tempfile.mkdtemp: the names under which no directory exists; the
\* directory is created with an exclusive mkdir
FreshDirs(f) == { d \in DirNames : ~f[d].exists }

\* the files the call sees under its temp_dir
DirOf(c) == fs[calls[c].td].files

SetCall(c, r) == calls' = [calls EXCEPT ![c] = r]

\* except Exception: return in_bytes
CallFallback(c, locals) ==
    SetCall(c, [locals EXCEPT !.pc = "return",
                   !.ret = [kind |-> "bytes", via |-> "except",
                            bytes |-> ExceptReturn(locals.in_bytes, DirOf(c))]])

singleVars == << entry, pc, in_bytes, options, cfg, optimize_images, remove_metadata,
                 td, files, qpdf_size, gs_size, gs_cmd, gs_status, chosen_pdf,
                 final_file, strip_status, ret, stdout, result, exit_code, deps >>

\* compress_pdf(in_bytes, options) is called: options are parsed and the
\* profile resolved
CallStart(c) ==
    /\ calls[c].pc = "idle"
    /\ \E d \in ConcDocs, o \in ConcOptions :
         /\ SetCall(c, [IdleCall EXCEPT !.pc = "mkdtemp", !.in_bytes = d, !.options = o,
                           !.cfg = ResolveProfile(GS_LEVELS, o),
                           !.remove_metadata = BoolOption(o.removeMetadata, FALSE)])
         /\ GS_LEVELS' = CatalogAfterResolve(GS_LEVELS, o)
    /\ UNCHANGED << fs, singleVars, unitVars >>

\* with tempfile.TemporaryDirectory() as td
CallMkdtemp(c) ==
    /\ calls[c].pc = "mkdtemp"
    /\ \E d \in FreshDirs(fs) :
         /\ fs' = [fs EXCEPT ![d] = [exists |-> TRUE,
                                     files |-> IF fs[d].exists THEN fs[d].files ELSE EmptyDir]]
         /\ SetCall(c, [calls[c] EXCEPT !.pc = "write", !.td = d])
    /\ UNCHANGED << GS_LEVELS, singleVars, unitVars >>

\* src_pdf.write_bytes(in_bytes); an exception here leaves the with block
\* and reaches the caller
CallWriteInput(c) ==
    /\ calls[c].pc = "write"
    /\ \/ /\ fs' = [fs EXCEPT ![calls[c].td].files.input = calls[c].in_bytes]
          /\ SetCall(c, [calls[c] EXCEPT !.pc = "qpdf"])
       \/ /\ fs' = [fs EXCEPT ![calls[c].td] = NoDir]
          /\ SetCall(c, [calls[c] EXCEPT !.pc = "returned",
                            !.ret = [kind |-> "raised", via |-> "raise", bytes |-> NoFile]])
    /\ UNCHANGED << GS_LEVELS, singleVars, unitVars >>

\* step 1 of a call
CallQpdf(c) ==
    /\ calls[c].pc = "qpdf"
    /\ \/ /\ CallFallback(c, [calls[c] EXCEPT !.qpdf_rc = "failed"])
          /\ UNCHANGED fs
       \/ \E out \in QpdfOutputs(DirOf(c).input) :
            /\ fs[calls[c].td].exists
            /\ fs' = [fs EXCEPT ![calls[c].td].files.qpdf = out]
            /\ SetCall(c, [calls[c] EXCEPT !.pc = "gs", !.qpdf_rc = "ok", !.qout = out,
                              !.qpdf_size = Len_(out)])
    /\ UNCHANGED << GS_LEVELS, singleVars, unitVars >>

\* step 2 of a call
CallGs(c) ==
    /\ calls[c].pc = "gs"
    /\ \/ /\ CallFallback(c, [calls[c] EXCEPT !.gs_rc = "failed"])
          /\ UNCHANGED fs
       \/ \E out \in ConcGsOutputs(DirOf(c).qpdf) :
            /\ fs[calls[c].td].exists /\ DirOf(c).qpdf # NoFile
            /\ fs' = [fs EXCEPT ![calls[c].td].files.gs = out]
            /\ IF out = NoFile
               THEN CallFallback(c, [calls[c] EXCEPT !.gs_rc = "ok", !.gout = out])
               ELSE SetCall(c, [calls[c] EXCEPT !.pc = "select", !.gs_rc = "ok",
                                   !.gout = out, !.gs_size = Len_(out)])
    /\ UNCHANGED << GS_LEVELS, singleVars, unitVars >>

\* step 3 of a call
CallSelect(c) ==
    /\ calls[c].pc = "select"
    /\ SetCall(c, [calls[c] EXCEPT !.pc = "strip",
                      !.chosen_pdf = IF ChooseLossy(calls[c].gs_size, calls[c].qpdf_size)
                                     THEN "gs" ELSE "qpdf"])
    /\ UNCHANGED << GS_LEVELS, fs, singleVars, unitVars >>

\* step 4 of a call
CallStrip(c) ==
    /\ calls[c].pc = "strip"
    /\ LET chosen == calls[c].chosen_pdf IN
       IF RunsStripper(calls[c].remove_metadata)
       THEN \/ \E out \in StripOutputs(DirOf(c)[chosen]) :
                 /\ fs[calls[c].td].exists
                 /\ fs' = [fs EXCEPT ![calls[c].td].files.final = out]
                 /\ SetCall(c, [calls[c] EXCEPT !.pc = "read", !.strip_rc = "ok",
                                   !.sout = out, !.final_file = "final"])
            \/ LET out == Copy2(DirOf(c)[chosen]) IN
                 /\ fs' = [fs EXCEPT ![calls[c].td].files.final = out]
                 /\ IF out = NoFile
                    THEN CallFallback(c, [calls[c] EXCEPT !.strip_rc = "failed"])
                    ELSE SetCall(c, [calls[c] EXCEPT !.pc = "read", !.strip_rc = "failed",
                                        !.sout = out, !.final_file = "final"])
       ELSE /\ SetCall(c, [calls[c] EXCEPT !.pc = "read", !.final_file = chosen])
            /\ UNCHANGED fs
    /\ UNCHANGED << GS_LEVELS, singleVars, unitVars >>

\* result_bytes = final_file.read_bytes(); return result_bytes
CallRead(c) ==
    /\ calls[c].pc = "read"
    /\ LET bytes == DirOf(c)[calls[c].final_file] IN
       IF bytes = NoFile
       THEN CallFallback(c, calls[c])
       ELSE SetCall(c, [calls[c] EXCEPT !.pc = "return",
                           !.ret = [kind |-> "bytes", via |-> "normal", bytes |-> bytes]])
    /\ UNCHANGED << GS_LEVELS, fs, singleVars, unitVars >>

\* leaving the with block of a call
CallExit(c) ==
    /\ calls[c].pc = "return"
    /\ fs' = [fs EXCEPT ![calls[c].td] = NoDir]
    /\ SetCall(c, [calls[c] EXCEPT !.pc = "returned"])
    /\ UNCHANGED << GS_LEVELS, singleVars, unitVars >>

\* the caller has the bytes; the worker takes its next request
CallFinish(c) ==
    /\ calls[c].pc = "returned"
    /\ SetCall(c, IdleCall)
    /\ UNCHANGED << GS_LEVELS, fs, singleVars, unitVars >>

NextConc ==
    \/ \E c \in CallIds : CallStart(c)
    \/ \E c \in CallIds : CallMkdtemp(c)
    \/ \E c \in CallIds : CallWriteInput(c)
    \/ \E c \in CallIds : CallQpdf(c)
    \/ \E c \in CallIds : CallGs(c)
    \/ \E c \in CallIds : CallSelect(c)
    \/ \E c \in CallIds : CallStrip(c)
    \/ \E c \in CallIds : CallRead(c)
    \/ \E c \in CallIds : CallExit(c)
    \/ \E c \in CallIds : CallFinish(c)

SpecConc == Init /\ [][NextConc]_vars

\* ------------------------------------------- _strip_metadata on its own
\* the files that may be at in_pdf when _strip_metadata is called
StripInputs == InputDocs \cup {NoFile}

otherVars == << GS_LEVELS, singleVars, concVars >>

\* _strip_metadata(in_pdf, out_pdf) is called
StripCallBegin ==
    /\ strip_call.pc = "idle"
    /\ \E f \in StripInputs, w \in BOOLEAN :
         strip_call' = [NoStripCall EXCEPT !.pc = "open", !.in_pdf = f, !.writable = w]
    /\ UNCHANGED << otherVars, merge >>

\* with pikepdf.open(in_pdf) as pdf: pikepdf opens only a well-formed
\* document and may raise on any file
StripOpen ==
    /\ strip_call.pc = "open"
    /\ \/ /\ strip_call.in_pdf.magic
          /\ strip_call' = [strip_call EXCEPT !.pc = "save"]
       \/ strip_call' = [strip_call EXCEPT !.pc = "except"]
    /\ UNCHANGED << otherVars, merge >>

\* the edits and pdf.save(out_pdf); save raises when out_pdf cannot be
\* written
StripSave ==
    /\ strip_call.pc = "save"
    /\ IF strip_call.writable
       THEN \E out \in StripOutputs(strip_call.in_pdf) :
              strip_call' = [strip_call EXCEPT !.pc = "done", !.out_pdf = out]
       ELSE strip_call' = [strip_call EXCEPT !.pc = "except"]
    /\ UNCHANGED << otherVars, merge >>

\* except Exception: shutil.copy2(in_pdf, out_pdf); the copy raises inside
\* the handler when in_pdf does not exist or out_pdf cannot be written, and
\* nothing catches it
StripCopy ==
    /\ strip_call.pc = "except"
    /\ IF strip_call.in_pdf # NoFile /\ strip_call.writable
       THEN strip_call' = [strip_call EXCEPT !.pc = "print",
                                             !.out_pdf = Copy2(strip_call.in_pdf)]
       ELSE strip_call' = [strip_call EXCEPT !.pc = "done", !.raised = TRUE]
    /\ UNCHANGED << otherVars, merge >>

\* print(f"Warning: Metadata removal failed: {e}")
StripWarn ==
    /\ strip_call.pc = "print"
    /\ strip_call' = [strip_call EXCEPT !.pc = "done", !.warned = TRUE]
    /\ UNCHANGED << otherVars, merge >>

\* the caller has the outcome; the next call starts afresh
StripCallEnd ==
    /\ strip_call.pc = "done"
    /\ strip_call' = NoStripCall
    /\ UNCHANGED << otherVars, merge >>

NextStrip ==
    \/ StripCallBegin
    \/ StripOpen
    \/ StripSave
    \/ StripCopy
    \/ StripWarn
    \/ StripCallEnd

SpecStrip == Init /\ [][NextStrip]_vars

\* ---------------------------------------------------------- merge_videos
\* the values int((time_ms / total_duration) * 100) can take for the lines
\* ffmpeg prints: below 0, inside 0..99, and at or above 100
RawPercents == {-5, 0, 25, 50, 75, 99, 100, 140}

\* percent = min(99, max(0, int((time_ms / total_duration) * 100)))
CapPercent(raw) == Min2(99, Max2(0, raw))

\* subprocess.Popen(cmd, ...), progress_thread.start(), and the main thread
\* enters process.communicate()
MergeStart ==
    /\ merge.main = "idle"
    /\ merge' = [NoMerge EXCEPT !.main = "communicate", !.tracker = "poll",
                                !.process = "running"]
    /\ UNCHANGED << otherVars, strip_call >>

\* ffmpeg exits
ProcessExits ==
    /\ merge.process = "running"
    /\ \E rc \in {0, 1} :
         merge' = [merge EXCEPT !.process = "exited", !.returncode = rc]
    /\ UNCHANGED << otherVars, strip_call >>

\* tracker: while process.poll() is None
TrackerPoll ==
    /\ merge.tracker = "poll"
    /\ merge' = [merge EXCEPT !.tracker = IF merge.process = "running"
                                          THEN "readline" ELSE "exited"]
    /\ UNCHANGED << otherVars, strip_call >>

\* tracker: line = process.stdout.readline() and the parse of the line: a
\* line without out_time_ms, or a percent not above last_percent, goes back
\* to the loop test; a larger percent is remembered in last_percent
TrackerReadline ==
    /\ merge.tracker = "readline"
    /\ \/ merge' = [merge EXCEPT !.tracker = "poll"]
       \/ \E raw \in RawPercents :
            LET percent == CapPercent(raw) IN
            IF percent > merge.last_percent
            THEN merge' = [merge EXCEPT !.tracker = "set", !.last_percent = percent,
                                        !.pending = percent]
            ELSE merge' = [merge EXCEPT !.tracker = "poll"]
    /\ UNCHANGED << otherVars, strip_call >>

\* tracker: progress_data["percent"] = percent
TrackerSet ==
    /\ merge.tracker = "set"
    /\ merge' = [merge EXCEPT !.tracker = "write", !.percent = merge.pending]
    /\ UNCHANGED << otherVars, strip_call >>

\* tracker: update_progress_file() writes the current progress_data["percent"]
TrackerWrite ==
    /\ merge.tracker = "write"
    /\ merge' = [merge EXCEPT !.tracker = "poll", !.progress_file = merge.percent]
    /\ UNCHANGED << otherVars, strip_call >>

\* main: process.communicate() returns once ffmpeg has exited
MainCommunicate ==
    /\ merge.main = "communicate"
    /\ merge.process = "exited"
    /\ merge' = [merge EXCEPT !.main = "join"]
    /\ UNCHANGED << otherVars, strip_call >>

\* main: progress_thread.join(timeout=1) returns when the tracker has
\* ended, or after one second with the tracker still running
MainJoin ==
    /\ merge.main = "join"
    /\ merge' = [merge EXCEPT !.main = "check",
                              !.timed_out = (merge.tracker # "exited")]
    /\ UNCHANGED << otherVars, strip_call >>

\* main: if process.returncode == 0: progress_data["percent"] = 100
MainCheck ==
    /\ merge.main = "check"
    /\ IF merge.returncode = 0
       THEN merge' = [merge EXCEPT !.main = "write", !.percent = 100]
       ELSE merge' = [merge EXCEPT !.main = "done"]
    /\ UNCHANGED << otherVars, strip_call >>

\* main: update_progress_file() writes the current progress_data["percent"]
\* and merge_videos returns {"success": True}
MainWrite ==
    /\ merge.main = "write"
    /\ merge' = [merge EXCEPT !.main = "done", !.progress_file = merge.percent]
    /\ UNCHANGED << otherVars, strip_call >>

\* both threads have ended; the next merge starts afresh
MergeEnd ==
    /\ merge.main = "done"
    /\ merge.tracker = "exited"
    /\ merge' = NoMerge
    /\ UNCHANGED << otherVars, strip_call >>

NextMerge ==
    \/ MergeStart
    \/ ProcessExits
    \/ TrackerPoll
    \/ TrackerReadline
    \/ TrackerSet
    \/ TrackerWrite
    \/ MainCommunicate
    \/ MainJoin
    \/ MainCheck
    \/ MainWrite
    \/ MergeEnd

SpecMerge == Init /\ [][NextMerge]_vars

\* ----------------------------------------------------------------- claims
\* the lossless pass has written its output and the handler or the normal
\* path has computed the return value, the directory still existing
AtReturn == pc = "return" /\ td = "exists"

\* C1: when the lossless pass has succeeded and the lossy pass fails, the
\* lossless output is the chosen artifact and the returned payload is
\* derived from it, not from the original input.
C1_LossyFailureKeepsLossless ==
    (AtReturn /\ files.qpdf # NoFile /\ gs_status = "failed")
        => /\ chosen_pdf = "qpdf"
           /\ ret.bytes \in {files.qpdf, files.final}
           /\ ret.bytes # in_bytes

\* C2: whenever a step after the write of the input fails and the failure
\* reaches the handler of compress_pdf, the returned byte string is
\* identical to in_bytes; for a non-document input, on which the lossless
\* pass fails, the payload equals the input.
C2_FailureReturnsOriginal ==
    /\ (ret.via = "except" => ret.kind = "bytes" /\ ret.bytes = in_bytes)
    /\ (AtReturn /\ ~in_bytes.magic => ret.via = "except" /\ ret.bytes = in_bytes)

\* C2 witness: a non-document input of one byte or more, the lossless pass
\* has failed and the handler has produced the return value
C2_Witness ==
    /\ AtReturn
    /\ ~in_bytes.magic /\ Len_(in_bytes) > 0
    /\ files.qpdf = NoFile
    /\ ret.via = "except" /\ ret.bytes = in_bytes

\* the lossless pass rejected the input of the request that was reported
LosslessRejected == ret.via = "except" /\ qpdf_size = -1

\* C3: when the lossless pass rejects the input, the result reported by
\* handle_pdf_compress and by main has success=false.
C3_RejectedInputReportsFailure ==
    (pc = "done" /\ entry \in {"route", "main"} /\ result.reported /\ LosslessRejected)
        => ~result.success

\* C4: the reported result has compressed_size <= original_size or
\* success=false.
C4_NoInflationReportedAsSuccess ==
    (pc = "done" /\ entry \in {"route", "main"} /\ result.reported)
        => (result.compressed_size <= result.original_size \/ ~result.success)

\* C5: when both outputs exist the lossy output is chosen exactly when it
\* is strictly smaller than the lossless output, a tie goes to the lossless
\* output, and the chosen artifact has the minimum of the two sizes.
C5_SelectsStrictlySmaller ==
    (chosen_pdf # "none" /\ td = "exists")
        => /\ files.qpdf # NoFile /\ files.gs # NoFile
           /\ (chosen_pdf = "gs" <=> Len_(files.gs) < Len_(files.qpdf))
           /\ (chosen_pdf = "qpdf" <=> Len_(files.gs) >= Len_(files.qpdf))
           /\ Len_(files[chosen_pdf]) = Min2(Len_(files.gs), Len_(files.qpdf))

\* C5 witness: both outputs exist with equal sizes and the lossless output
\* was chosen
C5_Witness ==
    /\ pc = "strip"
    /\ files.gs # NoFile /\ Len_(files.gs) = Len_(files.qpdf)
    /\ chosen_pdf = "qpdf"

CleanPayload == ~ret.bytes.info /\ ~ret.bytes.meta

\* C7 as stated: with removeMetadata=true the returned payload has an empty
\* document-info dictionary and no metadata-stream reference for every
\* combination of stage outcomes.
C7_AlwaysCleanPayload ==
    (AtReturn /\ options.removeMetadata = "true") => CleanPayload

\* C7 amended: with removeMetadata=true, when every stage has succeeded and
\* the stripper has saved its output, the returned payload has an empty
\* document-info dictionary and no metadata-stream reference.
C7_CleanPayloadAfterStrip ==
    (AtReturn /\ options.removeMetadata = "true" /\ strip_status = "ok")
        => ret.via = "normal" /\ ret.bytes = files.final /\ CleanPayload

\* C7 witness: the chosen artifact carried both kinds of metadata and the
\* payload carries none
C7_Witness ==
    /\ AtReturn
    /\ options.removeMetadata = "true"
    /\ strip_status = "ok"
    /\ files[chosen_pdf].info /\ files[chosen_pdf].meta
    /\ CleanPayload

\* C8: when removeMetadata is false or absent the stripper is never invoked
\* and the payload of the success path is byte-identical to the chosen
\* artifact.
C8_NoStripWithoutFlag ==
    options.removeMetadata \in {"false", "<absent>"}
        => /\ strip_status = "none"
           /\ files.final = NoFile
           /\ (AtReturn /\ ret.via = "normal"
                 => ret.bytes = files[chosen_pdf] /\ ret.bytes.src \in {"qpdf", "gs"})

\* C8 witness: a success path without the flag whose payload still has the
\* document info of the chosen artifact
C8_Witness ==
    /\ AtReturn
    /\ options.removeMetadata \in {"false", "<absent>"}
    /\ ret.via = "normal"
    /\ ret.bytes.info /\ ret.bytes.meta

\* the profile of the request has been resolved
Resolved == pc \notin {"idle", "resolve", "done"} /\ cfg # NoCfg

\* C9: for every level and every integer imageQuality q the resolved JPEG
\* quality is min(95, max(10, q)), not the level's default.
C9_IntegerOverrideClamped ==
    (Resolved /\ options.imageQuality.kind = "int")
        => LET q == options.imageQuality.tenths \div 10
           IN  /\ cfg.JPEGQuality = Min2(95, Max2(10, q))
               /\ (q = 30 => cfg.JPEGQuality = 30)
               /\ (q < 10 => cfg.JPEGQuality = 10)
               /\ (q > 95 => cfg.JPEGQuality = 95)

\* C9 witness: level low, whose default is 85, resolved with override 30
C9_Witness ==
    /\ Resolved
    /\ options.level = "low"
    /\ options.imageQuality = IntQ(30)
    /\ cfg.JPEGQuality = 30

\* nearest integer of a number given in tenths, halves rounded up
RoundNearest(t) == (t + 5) \div 10

\* C10: a non-integer imageQuality is rounded to the nearest integer before
\* it is clamped into [10, 95].
C10_FractionalOverrideRounded ==
    (Resolved /\ options.imageQuality.kind = "float")
        => cfg.JPEGQuality = Min2(95, Max2(10, RoundNearest(options.imageQuality.tenths)))

\* the level a request names, read off the request without str.lower():
\* each spelling of the four names, everything else is medium
NamedLevel(l) ==
    CASE l \in {"low", "LOW"} -> "low"
      [] l \in {"high", "High"} -> "high"
      [] l \in {"maximum", "Maximum"} -> "maximum"
      [] OTHER -> "medium"

\* two profiles agree in every field but JPEGQuality
SameButQuality(a, b) ==
    /\ a.ColorImageResolution = b.ColorImageResolution
    /\ a.GrayImageResolution = b.GrayImageResolution
    /\ a.MonoImageResolution = b.MonoImageResolution
    /\ a.UseJPX = b.UseJPX

\* C11: level resolution is case-insensitive and total: any casing of the
\* four names resolves to that level's profile, and an absent, empty, null
\* or unrecognized level resolves to the medium profile.
C11_LevelResolution ==
    Resolved
        => LET want == GS_LEVELS_INIT[NamedLevel(options.level)]
           IN  /\ SameButQuality(cfg, want)
               /\ (~HasQualityOverride(options.imageQuality) => cfg = want)

\* C11 witness: a capitalised level name resolved to its profile and no
\* override in the request
C11_Witness ==
    /\ Resolved
    /\ options.level = "Maximum"
    /\ options.imageQuality = NoQuality
    /\ cfg = GS_LEVELS_INIT["maximum"]

\* C12: the catalog is never mutated: after any sequence of calls every
\* profile of GS_LEVELS has its initial value, and the request's copy
\* differs from the catalog profile in no field other than JPEGQuality.
C12_CatalogImmutable ==
    /\ GS_LEVELS = GS_LEVELS_INIT
    /\ Resolved
         => SameButQuality(cfg, GS_LEVELS[ProfileKey(GS_LEVELS, ResolveLevel(options.level))])

\* C12 witness: a request whose override changed the quality of its copy
\* while the catalog kept the default
C12_Witness ==
    /\ Resolved
    /\ HasQualityOverride(options.imageQuality)
    /\ options.level = "low"
    /\ cfg.JPEGQuality = 30
    /\ GS_LEVELS["low"].JPEGQuality = 85

\* C13: on every exit path of compress_pdf (normal return, fallback to the
\* original, exception while writing the input) the temporary directory and
\* every artifact in it no longer exist once the call has finished.
C13_TempDirRemoved ==
    (pc \in {"returned", "done"} /\ ret.kind # "none")
        => td = "removed" /\ files = EmptyDir

\* C13 witness: the call has finished through the fallback after the
\* lossless output had been written
C13_Witness ==
    /\ pc = "returned"
    /\ ret.via = "except"
    /\ qpdf_size > 0
    /\ td = "removed" /\ files = EmptyDir

\* C14: an engine that never exits is treated as a failure after a hard
\* timeout and compress_pdf still eventually returns.
C14_HungEngineTimesOut == (pc = "blocked") ~> (pc = "returned")

\* C15: the probe answers ready=true only if qpdf and gs exit with code 0
\* and pikepdf is importable; otherwise it answers ready=false with a
\* message, and it never raises.
C15_ProbeReadiness ==
    deps.probed
        => /\ deps.ready <=> (deps.qp = "ok" /\ deps.gp = "ok" /\ deps.pike)
           /\ (~deps.ready => deps.msg # "")
           /\ ~deps.raised

\* C15 witness: qpdf answers and the gs binary is missing
C15_Witness ==
    /\ deps.probed
    /\ deps.qp = "ok" /\ deps.gp = "notfound"
    /\ ~deps.ready

\* C16: when the probe reports not ready, handle_pdf_compress and main
\* report success=false with the probe's message and never invoke
\* compress_pdf: no working directory, no engine pass.
C16_NotReadyRefused ==
    (deps.probed /\ ~deps.ready)
        => /\ pc = "done"
           /\ result.reported /\ ~result.success
           /\ result.error = "Dependencies not available"
           /\ result.detail = deps.msg
           /\ ret = NoRet /\ cfg = NoCfg
           /\ td = "none" /\ files = EmptyDir
           /\ gs_cmd = << >> /\ qpdf_size = -1

\* C16 witness: main refused a request because qpdf answered with a
\* non-zero code
C16_Witness ==
    /\ entry = "main"
    /\ pc = "done"
    /\ deps.probed /\ deps.qp = "nonzero"
    /\ result.detail = "qpdf not available"
    /\ exit_code = 1

\* C17: for a request that the probe refused or whose stages ran, success
\* is false only when the lossless pass rejected the input or a dependency
\* is unavailable; a lossy or metadata-strip failure after a successful
\* lossless pass leaves success=true.
C17_SuccessFalseOnlyForFatal ==
    (pc = "done" /\ entry \in {"route", "main"} /\ result.reported
       /\ deps.probed /\ (ret.kind = "bytes" \/ ~deps.ready))
        => /\ ~result.success => (~deps.ready \/ LosslessRejected)
           /\ ((gs_status = "failed" \/ strip_status = "failed") => result.success)

\* C17 witness: the route reported success after the lossy pass had failed
C17_Witness ==
    /\ pc = "done" /\ entry = "route"
    /\ result.reported /\ result.success
    /\ qpdf_size > 0 /\ gs_status = "failed"

\* C18: in every run of main standard output holds exactly the one JSON
\* result and nothing else.
C18_StdoutOnlyResult ==
    (entry = "main" /\ pc = "done") => stdout = << "json" >>

\* C20: for an input that starts with the PDF header, any of the four
\* levels, removeMetadata set and an imageQuality override, the returned
\* payload is non-empty and starts with the PDF header.
C20_PayloadIsPdf ==
    (AtReturn /\ in_bytes.magic /\ options.removeMetadata = "true"
       /\ HasQualityOverride(options.imageQuality)
       /\ options.level \in LevelNames)
        => Len_(ret.bytes) > 0 /\ ret.bytes.magic

\* the payload a call returns when it runs alone with the engine outcomes it
\* had: the input after a failed pass or a missing lossy output, otherwise
\* the smaller output, stripped when the stripper ran and succeeded
AlonePayload(l) ==
    IF l.qpdf_rc = "failed" \/ l.gs_rc = "failed" \/ (l.gs_rc = "ok" /\ l.gout = NoFile)
    THEN l.in_bytes
    ELSE LET chosen == IF Len_(l.gout) < Len_(l.qout) THEN l.gout ELSE l.qout
         IN  IF l.strip_rc = "ok" THEN l.sout ELSE chosen

\* the call has a directory of its own
HasDir(c) == calls[c].pc \in {"write", "qpdf", "gs", "select", "strip", "read", "return"}

\* C19: under every interleaving of the calls, each call works in a
\* directory no other call uses and finds there only what it wrote itself,
\* the catalog is never written, and each call returns the payload it
\* would return running alone with the same engine outcomes.
C19_CallsIndependent ==
    /\ GS_LEVELS = GS_LEVELS_INIT
    /\ \A c \in CallIds :
         /\ HasDir(c) =>
              /\ fs[calls[c].td].exists
              /\ \A o \in CallIds \ {c} : HasDir(o) => calls[o].td # calls[c].td
              /\ DirOf(c).input \in {NoFile, calls[c].in_bytes}
              /\ DirOf(c).qpdf = calls[c].qout
              /\ DirOf(c).gs = calls[c].gout
              /\ DirOf(c).final = calls[c].sout
         /\ (calls[c].pc \in {"return", "returned"} /\ calls[c].ret.kind = "bytes") =>
              calls[c].ret.bytes = AlonePayload(calls[c])
         /\ calls[c].ret.kind = "raised" => calls[c].qpdf_rc = "none"

\* C19 witness: two calls with different inputs are both about to leave
\* their directories, one with its stripped lossy output, the other with
\* its lossless output
C19_Witness ==
    /\ calls[1].pc = "return" /\ calls[2].pc = "return"
    /\ calls[1].in_bytes # calls[2].in_bytes
    /\ calls[1].td # calls[2].td
    /\ calls[1].strip_rc = "ok" /\ calls[1].ret.bytes = calls[1].sout
    /\ calls[1].chosen_pdf = "gs"
    /\ calls[2].ret.bytes = calls[2].qout

\* C21: for an input whose original size is 0 no entry point that computes
\* a reduction percentage fails with a division-by-zero error.
C21_NoDivisionByZero ==
    (pc = "done" /\ entry \in {"route", "main"} /\ ret.kind = "bytes"
       /\ Len_(in_bytes) = 0)
        => result.error # "division by zero" /\ result.success

\* the flags of an argument vector
FlagsOf(cmd) == { cmd[i].flag : i \in DOMAIN cmd }

PresetFlags == {"-dPDFSETTINGS=/screen", "-dPDFSETTINGS=/ebook", "-dPDFSETTINGS=/prepress"}

\* C22: the lossy pass selects its preset from the effective quality q by
\* threshold bucketing: q <= 50 gives /screen, 50 < q <= 70 gives /ebook,
\* q > 70 gives /prepress, and exactly one preset flag is passed for every
\* q in [10, 95].
C22_PresetBuckets ==
    gs_cmd # << >>
        => LET q == cfg.JPEGQuality
           IN  /\ q \in 10..95
               /\ Cardinality({ i \in DOMAIN gs_cmd : gs_cmd[i].flag \in PresetFlags }) = 1
               /\ (q <= 50 => "-dPDFSETTINGS=/screen" \in FlagsOf(gs_cmd))
               /\ ((50 < q /\ q <= 70) => "-dPDFSETTINGS=/ebook" \in FlagsOf(gs_cmd))
               /\ (q > 70 => "-dPDFSETTINGS=/prepress" \in FlagsOf(gs_cmd))

\* C22 witness: the lossy pass ran with quality 50, the upper end of the
\* most aggressive bucket
C22_Witness ==
    /\ gs_cmd # << >>
    /\ cfg.JPEGQuality = 50
    /\ "-dPDFSETTINGS=/screen" \in FlagsOf(gs_cmd)

ImageFlagNames ==
    {"-dDownsampleColorImages=true", "-dDownsampleGrayImages=true",
     "-dColorImageResolution", "-dGrayImageResolution",
     "-dColorImageDownsampleType=/Average", "-dGrayImageDownsampleType=/Average"}

HasImageFlags(cmd) == FlagsOf(cmd) \cap ImageFlagNames # {}

\* C23: the resolution and downsampling flags are in the argument list
\* only when the most aggressive preset is selected (quality <= 50) and
\* optimizeEmbeddedImages is not false.
C23_ImageFlagsOnlyForScreen ==
    gs_cmd # << >>
        => /\ HasImageFlags(gs_cmd)
                => (cfg.JPEGQuality <= 50 /\ options.optimizeEmbeddedImages # "false")
           /\ HasImageFlags(gs_cmd) => "-dPDFSETTINGS=/screen" \in FlagsOf(gs_cmd)

\* C23 witness: the medium preset with image optimisation requested and no
\* image flag in the command
C23_Witness ==
    /\ gs_cmd # << >>
    /\ cfg.JPEGQuality = 60
    /\ options.optimizeEmbeddedImages = "true"
    /\ "-dPDFSETTINGS=/ebook" \in FlagsOf(gs_cmd)
    /\ ~HasImageFlags(gs_cmd)

\* C25: whenever the lossy pass is treated as successful (its size has
\* been measured and the pipeline goes on), its output is non-empty; a
\* zero-byte output is never the chosen artifact or the payload.
C25_LossyOutputNonEmpty ==
    /\ gs_size # -1 => gs_size > 0
    /\ (td = "exists" /\ chosen_pdf = "gs") => Len_(files.gs) > 0
    /\ (AtReturn /\ ret.via = "normal") => Len_(ret.bytes) > 0

\* C26: the stages of one request run in order and each consumes the
\* output of the one before: the lossy pass starts only after the lossless
\* pass has succeeded and reads qpdf.pdf, the selection happens only after
\* both sizes are known, and the stripper runs only after the selection, on
\* the chosen artifact.
C26_StagesInOrder ==
    /\ gs_status # "none"
         => /\ qpdf_size >= 0
            /\ gs_cmd # << >>
            /\ gs_cmd[Len(gs_cmd)] = Arg("qpdf.pdf")
            /\ td = "exists" => files.qpdf # NoFile
    /\ gs_size # -1 => gs_status = "ok"
    /\ chosen_pdf # "none" => (qpdf_size >= 0 /\ gs_size >= 0)
    /\ strip_status # "none" => chosen_pdf # "none"
    /\ (td = "exists" /\ strip_status = "failed") => files.final = files[chosen_pdf]
    /\ (td = "exists" /\ strip_status = "ok")
         => files.final = [StripEdit(files[chosen_pdf]) EXCEPT !.src = "strip",
                                                              !.size = files.final.size]
    /\ final_file # "none" => chosen_pdf # "none"

\* C26 witness: all four stages ran and the payload is the stripped lossy
\* output
C26_Witness ==
    /\ AtReturn
    /\ ret.via = "normal"
    /\ chosen_pdf = "gs"
    /\ strip_status = "ok"
    /\ ret.bytes = files.final

\* C24: _strip_metadata never raises and never leaves the output path
\* without a file: after every call the output file exists.
C24_StripNeverRaises ==
    strip_call.pc = "done"
        => ~strip_call.raised /\ strip_call.out_pdf # NoFile

\* C27: compress_pdf never raises: for every options dict and every outcome
\* of writing the input and of each stage the call returns a byte string.
C27_NeverRaises ==
    pc = "returned" => ret.kind = "bytes"

\* the argument vector the same request gives with level l
CommandWithLevel(l) ==
    GsCommand(ResolveProfile(GS_LEVELS_INIT, [options EXCEPT !.level = l]), optimize_images)

C29_ProgressEndsAt100 ==
    /\ (merge.main = "done" /\ merge.returncode = 0) => merge.progress_file = 100
    /\ merge.progress_file \in {-1} \cup 0..100

\* C30: in every run of main the exit status is non-zero exactly when the
\* printed JSON result has success=false and zero exactly when it has
\* success=true, and exactly one JSON result is printed.
C30_ExitStatusMatchesResult ==
    (entry = "main" /\ pc = "done")
        => /\ result.reported
           /\ exit_code \in {0, 1}
           /\ (exit_code # 0) <=> ~result.success
           /\ Cardinality({ i \in DOMAIN stdout : stdout[i] = "json" }) = 1

\* C30 witness: main printed a failure result after compress_pdf raised
C30_Witness ==
    /\ entry = "main" /\ pc = "done"
    /\ ret.kind = "raised"
    /\ ~result.success
    /\ exit_code = 1

====
